---- MODULE Spec2Model ----
(***************************************************************************)
(* A model of tools/basetool.py: the module-level storage set-up, the      *)
(* execute_code tool (write a code file, run it with python, report the    *)
(* outcome as a dict) and the execute_command tool (run a shell command    *)
(* behind a conda activation, return its output).                          *)
(*                                                                         *)
(* Text (code bodies, stdout, stderr, messages) is modelled as strings;    *)
(* paths are sequences of one-character strings, because os.path.join and  *)
(* the file system look at their characters.                               *)
(***************************************************************************)
EXTENDS Integers, Sequences, FiniteSets, TLC

VARIABLES
    loaded,        \* the module body (lines 9-19, 124) has run
    storage_path,  \* the module global of line 14
    environ,       \* the process environment the tools run in
    dirs,          \* file system: the directories that exist (resolved)
    files,         \* file system: resolved location -> content
    last,          \* observer: <<>> or <<the most recent tool call>>
    log,           \* observer: the execute_code calls made so far, in order
    removed,       \* observer: the storage directory was removed from outside
    pc,            \* concurrent callers: position of each in execute_code
    req,           \* concurrent callers: the arguments of each
    ran,           \* concurrent callers: the content each one's child loaded
    res,           \* concurrent callers: <<>> or <<the dict returned>>
    lastWriter     \* observer: resolved location -> the caller that wrote last

vars == <<loaded, storage_path, environ, dirs, files, last, log, removed,
          pc, req, ran, res, lastWriter>>

seqVars == <<loaded, storage_path, environ, dirs, files, last, log, removed>>
concVars == <<pc, req, ran, res, lastWriter>>

-----------------------------------------------------------------------------
(* Paths and the file system                                               *)

RECURSIVE Str(_)
\* The text of a path, as f'{...}' and str() give it.
Str(p) == IF p = <<>> THEN "" ELSE Head(p) \o Str(Tail(p))

\* os.getenv('STORAGE_PATH', './data_storage/'): the default, and a
\* configured root without a trailing separator.
DefaultStoragePath ==
    <<".", "/", "d", "a", "t", "a", "_", "s", "t", "o", "r", "a", "g", "e", "/">>
ConfiguredStoragePath == <<"s", "t", "o", "r", "e">>

\* A fixed file name, whatever the caller asked for.
PathJoinFixedName(a, b) == a \o <<"/", "c", "o", "d", "e", ".", "p", "y">>
\* os.path.join(a, b) on POSIX.
PathJoin(a, b) ==
    IF b # <<>> /\ Head(b) = "/" THEN b
    ELSE IF a = <<>> \/ a[Len(a)] = "/" THEN a \o b
    ELSE a \o <<"/">> \o b

RECURSIVE SplitAcc(_, _, _)
\* Walks a path's characters; acc holds the components resolved so far.
SplitAcc(p, cur, acc) ==
    IF p = <<>> THEN acc
    ELSE IF Head(p) = "/"
         THEN SplitAcc(Tail(p), "",
                  IF cur = "" \/ cur = "." THEN acc
                  ELSE IF cur = ".."
                       THEN (IF Len(acc) > 1 THEN SubSeq(acc, 1, Len(acc) - 1) ELSE acc)
                       ELSE Append(acc, cur))
         ELSE SplitAcc(Tail(p), cur \o Head(p), acc)

\* The location a path names: <<"/", c1, ...>> or, from the working
\* directory, <<".", c1, ...>>.
Resolve(p) ==
    SplitAcc(p \o <<"/">>, "",
             IF p # <<>> /\ Head(p) = "/" THEN <<"/">> ELSE <<".">>)

Parent(key) == SubSeq(key, 1, Len(key) - 1)
Prefixes(key) == {SubSeq(key, 1, n) : n \in 1..Len(key)}
Under(key, dir) == Len(key) >= Len(dir) /\ SubSeq(key, 1, Len(dir)) = dir

\* os.path.exists
PathExists(d, f, p) == Resolve(p) \in d \/ Resolve(p) \in DOMAIN f
\* os.makedirs
MakeDirs(d, p) == d \cup Prefixes(Resolve(p))

OSError(type, errno, strerror, filename) ==
    [type |-> type, errno |-> errno, strerror |-> strerror, filename |-> filename]
\* str(e) of an OSError with a file name.
StrOSError(e) ==
    "[Errno " \o e.errno \o "] " \o e.strerror \o ": '" \o e.filename \o "'"

\* open(p, 'x'): refuses a file that is already there.
OpenX(d, f, p) ==
    IF Resolve(p) \in d \/ Resolve(p) \in DOMAIN f
    THEN <<OSError("FileExistsError", "17", "File exists", Str(p))>>
    ELSE IF Parent(Resolve(p)) \notin d
    THEN <<OSError("FileNotFoundError", "2", "No such file or directory", Str(p))>>
    ELSE <<>>
\* open(p, 'w') that first makes the missing directories.
OpenMkdirs(d, f, p) ==
    IF Resolve(p) \in d \/ (p # <<>> /\ p[Len(p)] = "/")
    THEN <<OSError("IsADirectoryError", "21", "Is a directory", Str(p))>>
    ELSE <<>>
\* open(p, 'w'): <<>> when the file can be created or truncated, else
\* <<the OSError raised>>.
OpenW(d, f, p) ==
    IF Resolve(p) \in d \/ (p # <<>> /\ p[Len(p)] = "/")
    THEN <<OSError("IsADirectoryError", "21", "Is a directory", Str(p))>>
    ELSE IF Parent(Resolve(p)) \in DOMAIN f
    THEN <<OSError("NotADirectoryError", "20", "Not a directory", Str(p))>>
    ELSE IF Parent(Resolve(p)) \notin d
    THEN <<OSError("FileNotFoundError", "2", "No such file or directory", Str(p))>>
    ELSE <<>>

\* A write that keeps what the file held (mode 'a').
AppendFile(f, key, text) ==
    [k \in DOMAIN f \cup {key} |->
        IF k = key THEN (IF key \in DOMAIN f THEN f[key] ELSE "") \o text ELSE f[k]]
\* open(..., 'w') truncates; write() then stores the text.
WriteFile(f, key, text) ==
    [k \in DOMAIN f \cup {key} |-> IF k = key THEN text ELSE f[k]]

NoFiles == [k \in {} |-> ""]
BaseDirs == {<<".">>, <<"/">>, <<"/", "tmp">>}

-----------------------------------------------------------------------------
(* The child processes                                                     *)

\* Code bodies a caller submits.  BodyMkdir has an effect outside itself:
\* it makes the directory m in the working directory.
BodyOk == "print('ok')"
BodyExit == "print('partial'); raise SystemExit(3)"
BodyMkdir == "import os; os.mkdir('m'); print('made')"
Bodies == {BodyOk, BodyExit, BodyMkdir}
PureBodies == {BodyOk, BodyExit}
MarkerDir == <<".", "m">>

Completed(stdout, stderr, returncode, d) ==
    [stdout |-> stdout, stderr |-> stderr, returncode |-> returncode, dirs |-> d]

\* python <p>, first half: the interpreter opens the script.
LoadScript(f, p) == IF Resolve(p) \in DOMAIN f THEN <<f[Resolve(p)]>> ELSE <<>>

\* python <p>, second half: the script that was loaded runs to its exit.
RunScript(d, loadedScript, p) ==
    IF loadedScript = <<>>
    THEN Completed("", "python: can't open file '" \o Str(p)
                       \o "': [Errno 2] No such file or directory\n", 2, d)
    ELSE IF loadedScript[1] = BodyOk THEN Completed("ok\n", "", 0, d)
    ELSE IF loadedScript[1] = BodyExit THEN Completed("partial\n", "", 3, d)
    ELSE IF loadedScript[1] = BodyMkdir
    THEN (IF MarkerDir \in d
          THEN Completed("", "Traceback (most recent call last):\n  File \""
                             \o Str(p) \o "\", line 1, in <module>\n"
                             \o "FileExistsError: [Errno 17] File exists: 'm'\n", 1, d)
          ELSE Completed("made\n", "", 0, d \cup {MarkerDir}))
    ELSE Completed("", "  File \"" \o Str(p) \o "\", line 1\n"
                       \o "SyntaxError: invalid syntax\n", 1, d)

\* The conda installation this machine has; CONDA_PATH may name another.
CondaDefault == "/home/e806/anaconda3"
CondaElsewhere == "/opt/conda"
CondaPaths == {CondaDefault, CondaElsewhere}
CondaEnvDefault == "dcbot"

SourceCmd(conda_path) == "source " \o conda_path \o "/etc/profile.d/conda.sh"
ActivateCmd(conda_env) == "conda activate " \o conda_env
\* full_command: the three commands joined by &&, kept as the list bash
\* runs from the left.
FullCommand(conda_path, conda_env, command) ==
    <<SourceCmd(conda_path), ActivateCmd(conda_env), command>>

Commands == {"echo hello", "ls nosuchfile", "false"}

\* One simple command under /bin/bash.
RunSimple(cmd) ==
    IF cmd = SourceCmd(CondaDefault) THEN Completed("", "", 0, {})
    ELSE IF cmd \in {SourceCmd(c) : c \in CondaPaths}
    THEN Completed("", "/bin/bash: line 1: "
                       \o (CHOOSE c \in CondaPaths : cmd = SourceCmd(c))
                       \o "/etc/profile.d/conda.sh: No such file or directory\n", 1, {})
    ELSE IF cmd = ActivateCmd(CondaEnvDefault) THEN Completed("", "", 0, {})
    ELSE IF cmd = "echo hello" THEN Completed("hello\n", "", 0, {})
    ELSE IF cmd = "ls nosuchfile"
    THEN Completed("", "ls: cannot access 'nosuchfile': No such file or directory\n", 2, {})
    ELSE IF cmd = "false" THEN Completed("", "", 1, {})
    ELSE Completed("", "/bin/bash: line 1: " \o cmd \o ": command not found\n", 127, {})

RECURSIVE RunAndList(_)
\* c1 && c2 && ...: stops at the first command that exits nonzero.
RunAndList(cmds) ==
    IF Len(cmds) = 1 THEN RunSimple(cmds[1])
    ELSE IF RunSimple(cmds[1]).returncode # 0 THEN RunSimple(cmds[1])
    ELSE Completed(RunSimple(cmds[1]).stdout \o RunAndList(Tail(cmds)).stdout,
                   RunSimple(cmds[1]).stderr \o RunAndList(Tail(cmds)).stderr,
                   RunAndList(Tail(cmds)).returncode, {})

-----------------------------------------------------------------------------
(* execute_code                                                            *)

FinalAnswerSuffix == "\n\nIf you have completed all tasks, respond with FINAL ANSWER."

\* The success dict without the trailing instruction.
SuccessResultBare(output, code_file_path) ==
    [result |-> "Code executed successfully",
     output |-> output,
     file_path |-> code_file_path]
SuccessResult(output, code_file_path) ==
    [result |-> "Code executed successfully",
     output |-> output \o FinalAnswerSuffix,
     file_path |-> code_file_path]

\* A failure dict that reports stdout in place of stderr.
FailureResultStdout(output, error_output, code_file_path) ==
    [result |-> "Failed to execute",
     error |-> output,
     file_path |-> code_file_path]
\* The dict of lines 67-71; output is captured (line 53) and not returned.
FailureResult(output, error_output, code_file_path) ==
    [result |-> "Failed to execute",
     error |-> error_output,
     file_path |-> code_file_path]

\* An error dict that leaves the file path out.
ErrorResultNoPath(e, code_file_path) ==
    [result |-> "Error occurred",
     error |-> StrOSError(e),
     file_path |-> <<>>]
ErrorResult(e, code_file_path) ==
    [result |-> "Error occurred",
     error |-> StrOSError(e),
     file_path |-> code_file_path]

\* The classes the model raises; all derive from Exception.
ExceptionClasses ==
    {"FileNotFoundError", "IsADirectoryError", "NotADirectoryError",
     "FileExistsError", "CalledProcessError"}
\* A handler narrowed to CalledProcessError, as execute_command has it.
CaughtOnlyCalledProcessError(type) == type = "CalledProcessError"
\* except Exception (line 72).
CaughtByExecuteCode(type) == type \in ExceptionClasses

Return(v) == [kind |-> "return", value |-> <<v>>, exc |-> <<>>]
Raise(e) == [kind |-> "raise", value |-> <<>>, exc |-> <<e>>]

\* The result dict for a reaped child (lines 52-71).
ResultOf(child, code_file_path) ==
    IF child.returncode = 0
    THEN SuccessResult(child.stdout, code_file_path)
    ELSE FailureResult(child.stdout, child.stderr, code_file_path)

\* What the except clause makes of an exception of the try body.
Handle(e, code_file_path) ==
    IF CaughtByExecuteCode(e.type)
    THEN Return(ErrorResult(e, code_file_path))
    ELSE Raise(e)

\* subprocess.run(['python', p]) cannot start python.
NoPython == OSError("FileNotFoundError", "2", "No such file or directory", "python")

Call(op, args, rootThere, wrote, spawned, child, path, outcome) ==
    [op |-> op, args |-> args, rootThere |-> rootThere, wrote |-> wrote,
     spawned |-> spawned, child |-> child, path |-> path, outcome |-> outcome]

\* A body that spawns python whether or not the write went through.
ExecuteCodeAlwaysSpawn(d, f, e, root, input_code, codefile_name) ==
    LET code_file_path == PathJoin(root, codefile_name)
        werr == OpenW(d, f, code_file_path)
        f1 == IF werr = <<>>
              THEN WriteFile(f, Resolve(code_file_path), input_code) ELSE f
        c == RunScript(d, LoadScript(f1, code_file_path), code_file_path)
    IN  [dirs |-> c.dirs, files |-> f1,
         call |-> Call("execute_code", <<input_code, codefile_name>>,
                       Resolve(root) \in d, werr = <<>>, e.python, <<c>>,
                       code_file_path,
                       IF werr # <<>> THEN Handle(werr[1], code_file_path)
                       ELSE Return(ResultOf(c, code_file_path)))]
\* execute_code(input_code, codefile_name), lines 39-78, in the file system
\* (d, f), the environment e and with storage_path = root: the file system
\* it leaves and the observer's record of the call.
ExecuteCode(d, f, e, root, input_code, codefile_name) ==
    LET code_file_path == PathJoin(root, codefile_name)
        werr == OpenW(d, f, code_file_path)
        f1 == WriteFile(f, Resolve(code_file_path), input_code)
        c == RunScript(d, LoadScript(f1, code_file_path), code_file_path)
    IN  IF werr # <<>>
        THEN [dirs |-> d, files |-> f,
              call |-> Call("execute_code", <<input_code, codefile_name>>,
                            Resolve(root) \in d, FALSE, FALSE, <<>>,
                            code_file_path, Handle(werr[1], code_file_path))]
        ELSE IF ~e.python
        THEN [dirs |-> d, files |-> f1,
              call |-> Call("execute_code", <<input_code, codefile_name>>,
                            Resolve(root) \in d, TRUE, FALSE, <<>>,
                            code_file_path, Handle(NoPython, code_file_path))]
        ELSE [dirs |-> c.dirs, files |-> f1,
              call |-> Call("execute_code", <<input_code, codefile_name>>,
                            Resolve(root) \in d, TRUE, TRUE, <<c>>,
                            code_file_path, Return(ResultOf(c, code_file_path)))]

-----------------------------------------------------------------------------
(* execute_command                                                         *)

CalledProcessError(c) ==
    [type |-> "CalledProcessError", returncode |-> c.returncode,
     stdout |-> c.stdout, stderr |-> c.stderr]
NoBash == OSError("FileNotFoundError", "2", "No such file or directory", "/bin/bash")

\* except subprocess.CalledProcessError (line 120).
CaughtByExecuteCommand(type) == type = "CalledProcessError"

\* A handler that lets the error go on to the caller.
CommandErrorReraised(e) == Raise(e)
\* Lines 121-122.
CommandError(e) == Return("Error: " \o e.stderr)

\* execute_command(command), lines 96-122.
ExecuteCommand(d, e, root, command) ==
    LET c == RunAndList(FullCommand(e.conda_path, CondaEnvDefault, command))
    IN  IF ~e.bash
        THEN Call("execute_command", <<command>>, Resolve(root) \in d, FALSE,
                  FALSE, <<>>, <<>>,
                  IF CaughtByExecuteCommand(NoBash.type)
                  THEN CommandError(NoBash) ELSE Raise(NoBash))
        ELSE Call("execute_command", <<command>>, Resolve(root) \in d, FALSE,
                  TRUE, <<c>>, <<>>,
                  IF c.returncode = 0 THEN Return(c.stdout)
                  ELSE IF CaughtByExecuteCommand("CalledProcessError")
                  THEN CommandError(CalledProcessError(c))
                  ELSE Raise(CalledProcessError(c)))

-----------------------------------------------------------------------------
(* The state machine                                                       *)

NameA == <<"a", ".", "p", "y">>
NameB == <<"b", ".", "p", "y">>
NameSub == <<"d", "/", "a", ".", "p", "y">>
NameAbs == <<"/", "t", "m", "p", "/", "a", ".", "p", "y">>
Names == {NameA, NameB, NameSub, NameAbs}

Range(s) == {s[i] : i \in 1..Len(s)}
\* A filesystem-safe identifier: not empty, no separator.
ValidName(n) == n # <<>> /\ "/" \notin Range(n)
ValidNames == {n \in Names : ValidName(n)}

\* os.getenv('STORAGE_PATH', './data_storage/'), line 14.
GetStoragePath(e) == IF e.storage = <<>> THEN DefaultStoragePath ELSE e.storage[1]

ProcessEnvironments ==
    [python : BOOLEAN, bash : BOOLEAN, conda_path : CondaPaths,
     storage : {<<>>, <<ConfiguredStoragePath>>}]

\* Lines 17-18.
EnsureStorage(d, f, p) == IF ~PathExists(d, f, p) THEN MakeDirs(d, p) ELSE d

Callers == {1, 2}
Idle == [input_code |-> "", codefile_name |-> <<>>, path |-> <<>>, wrote |-> FALSE]
NoWriter == [k \in {} |-> 0]

Init ==
    /\ loaded = FALSE
    /\ environ \in ProcessEnvironments
    /\ storage_path = <<>>
    /\ dirs \in {BaseDirs, BaseDirs \cup Prefixes(Resolve(GetStoragePath(environ)))}
    /\ files = NoFiles
    /\ last = <<>>
    /\ log = <<>>
    /\ removed = FALSE
    /\ pc = [t \in Callers |-> "idle"]
    /\ req = [t \in Callers |-> Idle]
    /\ ran = [t \in Callers |-> <<>>]
    /\ res = [t \in Callers |-> <<>>]
    /\ lastWriter = NoWriter

\* The module body, lines 9-19 and 124.
ImportModule ==
    /\ ~loaded
    /\ loaded' = TRUE
    /\ storage_path' = GetStoragePath(environ)
    /\ dirs' = EnsureStorage(dirs, files, GetStoragePath(environ))
    /\ UNCHANGED <<environ, files, last, log, removed>>
    /\ UNCHANGED concVars

\* One call of execute_code, start to return.  logged: the observer
\* appends the call to log.
CallExecuteCode(logged) ==
    /\ loaded
    /\ \E codefile_name \in Names, input_code \in Bodies :
         LET r == ExecuteCode(dirs, files, environ, storage_path,
                              input_code, codefile_name)
         IN  /\ dirs' = r.dirs
             /\ files' = r.files
             /\ last' = <<r.call>>
             /\ log' = IF logged THEN Append(log, r.call) ELSE log
    /\ UNCHANGED <<loaded, storage_path, environ, removed>>
    /\ UNCHANGED concVars

\* One call of execute_command, start to return or raise.
CallExecuteCommand ==
    /\ loaded
    /\ \E command \in Commands :
         last' = <<ExecuteCommand(dirs, environ, storage_path, command)>>
    /\ UNCHANGED <<loaded, storage_path, environ, dirs, files, log, removed>>
    /\ UNCHANGED concVars

\* Outside the program: the storage directory is removed with all it holds.
RemoveStorageRoot ==
    /\ loaded
    /\ Resolve(storage_path) \in dirs
    /\ dirs' = {k \in dirs : ~Under(k, Resolve(storage_path))}
    /\ files' = [k \in {x \in DOMAIN files : ~Under(x, Resolve(storage_path))}
                    |-> files[k]]
    /\ removed' = TRUE
    /\ UNCHANGED <<loaded, storage_path, environ, last, log>>
    /\ UNCHANGED concVars

\* Callers of both tools, one call at a time, and the storage directory may
\* be removed under them.
Submit == CallExecuteCode(FALSE)
Next == ImportModule \/ Submit \/ CallExecuteCommand \/ RemoveStorageRoot
Spec == Init /\ [][Next]_vars

\* The environment of the runs that look at execute_code alone.
InitCode == Init /\ environ.bash /\ environ.conda_path = CondaDefault

\* Sequential execute_code calls in a file system nobody else touches, each
\* one logged.
MaxCalls == 3
SubmitLogged == Len(log) < MaxCalls /\ CallExecuteCode(TRUE)
NextSeq == ImportModule \/ SubmitLogged
SpecSeq == InitCode /\ [][NextSeq]_vars

-----------------------------------------------------------------------------
(* Two callers inside execute_code at once                                 *)

\* Line 41: the call is entered and the path is computed.
Begin(t) ==
    /\ loaded
    /\ pc[t] = "idle"
    /\ \E codefile_name \in Names, input_code \in Bodies :
         req' = [req EXCEPT ![t] =
                    [input_code |-> input_code, codefile_name |-> codefile_name,
                     path |-> PathJoin(storage_path, codefile_name),
                     wrote |-> FALSE]]
    /\ pc' = [pc EXCEPT ![t] = "write"]
    /\ UNCHANGED <<ran, res, lastWriter>>
    /\ UNCHANGED seqVars

\* Lines 44-45: the file is opened, written and closed.
Write(t) ==
    /\ pc[t] = "write"
    /\ IF OpenW(dirs, files, req[t].path) # <<>>
       THEN /\ res' = [res EXCEPT ![t] =
                          <<Handle(OpenW(dirs, files, req[t].path)[1], req[t].path)>>]
            /\ pc' = [pc EXCEPT ![t] = "done"]
            /\ UNCHANGED <<files, lastWriter, req>>
       ELSE /\ files' = WriteFile(files, Resolve(req[t].path), req[t].input_code)
            /\ lastWriter' = [k \in DOMAIN lastWriter \cup {Resolve(req[t].path)} |->
                                 IF k = Resolve(req[t].path) THEN t ELSE lastWriter[k]]
            /\ req' = [req EXCEPT ![t].wrote = TRUE]
            /\ pc' = [pc EXCEPT ![t] = "spawn"]
            /\ UNCHANGED res
    /\ UNCHANGED ran
    /\ UNCHANGED <<loaded, storage_path, environ, dirs, last, log, removed>>

\* Line 50: subprocess.run starts python, or fails to.
Spawn(t) ==
    /\ pc[t] = "spawn"
    /\ IF environ.python
       THEN /\ pc' = [pc EXCEPT ![t] = "load"]
            /\ UNCHANGED res
       ELSE /\ res' = [res EXCEPT ![t] = <<Handle(NoPython, req[t].path)>>]
            /\ pc' = [pc EXCEPT ![t] = "done"]
    /\ UNCHANGED <<req, ran, lastWriter>>
    /\ UNCHANGED seqVars

\* The child opens the script it was given.
Load(t) ==
    /\ pc[t] = "load"
    /\ ran' = [ran EXCEPT ![t] = LoadScript(files, req[t].path)]
    /\ pc' = [pc EXCEPT ![t] = "wait"]
    /\ UNCHANGED <<req, res, lastWriter>>
    /\ UNCHANGED seqVars

\* Lines 50-71: the child runs to its exit and the dict is returned.
Reap(t) ==
    /\ pc[t] = "wait"
    /\ dirs' = RunScript(dirs, ran[t], req[t].path).dirs
    /\ res' = [res EXCEPT ![t] =
                  <<Return(ResultOf(RunScript(dirs, ran[t], req[t].path), req[t].path))>>]
    /\ pc' = [pc EXCEPT ![t] = "done"]
    /\ UNCHANGED <<req, ran, lastWriter>>
    /\ UNCHANGED <<loaded, storage_path, environ, files, last, log, removed>>

NextConc ==
    \/ ImportModule
    \/ \E t \in Callers : Begin(t)
    \/ \E t \in Callers : Write(t)
    \/ \E t \in Callers : Spawn(t)
    \/ \E t \in Callers : Load(t)
    \/ \E t \in Callers : Reap(t)
SpecConc == InitCode /\ [][NextConc]_vars

-----------------------------------------------------------------------------
(* Properties                                                              *)

LastIsCode == last # <<>> /\ last[1].op = "execute_code"
LastIsCommand == last # <<>> /\ last[1].op = "execute_command"
Returned(call) == call.outcome.kind = "return"
Value(call) == call.outcome.value[1]
\* The location <storage_root>/<name>.
ArtifactLocation(name) == Resolve(storage_path \o <<"/">> \o name)
ENOENT(path) == "[Errno 2] No such file or directory: '" \o Str(path) \o "'"

\* C1, as claimed: whenever the child of an execute_command call exits
\* nonzero, the call raises an error that carries the child's stderr and
\* returns no value.
C1_RaisesOnNonzeroExit ==
    (LastIsCommand /\ last[1].spawned /\ last[1].child[1].returncode # 0)
        => /\ last[1].outcome.kind = "raise"
           /\ last[1].outcome.exc[1].stderr = last[1].child[1].stderr

\* C1, amended: whenever the child of an execute_command call exits
\* nonzero, the call returns normally, and the value is the text "Error: "
\* followed by the child's stderr.
C1_ReturnsErrorText ==
    (LastIsCommand /\ last[1].spawned /\ last[1].child[1].returncode # 0)
        => /\ Returned(last[1])
           /\ Value(last[1]) = "Error: " \o last[1].child[1].stderr

C1_Witness ==
    /\ LastIsCommand /\ last[1].spawned
    /\ last[1].child[1].returncode # 0
    /\ last[1].child[1].stderr # ""
    /\ last[1].args[1] = "ls nosuchfile"

\* C2: every execute_code call returns a dict and raises nothing: a failed
\* write gives "Error occurred" with the I/O error's message, a nonzero exit
\* gives "Failed to execute", a failed spawn gives "Error occurred".
C2_NoExceptionEscapes ==
    LastIsCode =>
        /\ Returned(last[1])
        /\ ~last[1].wrote =>
              /\ Value(last[1]).result = "Error occurred"
              /\ Value(last[1]).error = ENOENT(last[1].path)
        /\ (last[1].wrote /\ ~last[1].spawned) =>
              /\ Value(last[1]).result = "Error occurred"
              /\ Value(last[1]).error = "[Errno 2] No such file or directory: 'python'"
        /\ (last[1].spawned /\ last[1].child[1].returncode # 0) =>
              Value(last[1]).result = "Failed to execute"

C2_Witness ==
    /\ LastIsCode /\ ~last[1].wrote /\ Returned(last[1])
    /\ Value(last[1]).result = "Error occurred"

\* C3, as claimed: every call creates exactly one child process, also when
\* the write failed; an execute_code call performs exactly one file write
\* and an execute_command call none.  (Read in the claim's favour: where
\* python and bash can be started.)
C3_ExactlyOneSpawnPerCall ==
    (last # <<>> /\ environ.python /\ environ.bash) =>
        /\ last[1].spawned
        /\ last[1].op = "execute_code" => last[1].wrote
        /\ last[1].op = "execute_command" => ~last[1].wrote

\* C3, amended: a call creates at most one child process and writes at
\* most one file.  execute_command writes no file and creates its child
\* unless bash cannot be started.  execute_code with a name that is an
\* identifier writes its file exactly when the storage directory is there;
\* after a write that went through it creates its child unless python
\* cannot be started; after a failed write it creates no child.
C3_SpawnOnlyAfterWrite ==
    /\ LastIsCommand =>
          /\ ~last[1].wrote
          /\ last[1].spawned <=> environ.bash
          /\ Len(last[1].child) = (IF last[1].spawned THEN 1 ELSE 0)
    /\ LastIsCode =>
          /\ ValidName(last[1].args[2]) => (last[1].wrote <=> last[1].rootThere)
          /\ ~last[1].wrote => ~last[1].spawned
          /\ last[1].wrote => (last[1].spawned <=> environ.python)
          /\ Len(last[1].child) = (IF last[1].spawned THEN 1 ELSE 0)

C3_Witness ==
    /\ LastIsCode /\ ~last[1].wrote /\ ~last[1].spawned
    /\ environ.python

\* C4: the dict an execute_code call returns for a name that is not an
\* absolute path (so for every identifier) carries under file_path a path
\* of the location <storage_root>/<name>, whether the call ended in
\* success, in failure or in an error.
C4_ResultCarriesArtifactPath ==
    (LastIsCode /\ Returned(last[1]) /\ Head(last[1].args[2]) # "/")
        => /\ "file_path" \in DOMAIN Value(last[1])
           /\ Value(last[1]).file_path # <<>>
           /\ Resolve(Value(last[1]).file_path) = ArtifactLocation(last[1].args[2])

C4_Witness ==
    /\ LastIsCode /\ Returned(last[1])
    /\ ValidName(last[1].args[2])
    /\ Value(last[1]).result = "Error occurred"
    /\ Resolve(Value(last[1]).file_path) = ArtifactLocation(last[1].args[2])

\* C5: when the child of an execute_code call was spawned and reaped, the
\* dict says success exactly when the exit code is 0; on success its output
\* is the captured stdout followed by the fixed instruction, and on a
\* nonzero exit it says failure and its error is the captured stderr.
C5_StatusFollowsExitCode ==
    (LastIsCode /\ last[1].spawned) =>
        /\ Returned(last[1])
        /\ Value(last[1]).result = "Code executed successfully"
              <=> last[1].child[1].returncode = 0
        /\ last[1].child[1].returncode = 0 =>
              Value(last[1]).output = last[1].child[1].stdout
                  \o "\n\nIf you have completed all tasks, respond with FINAL ANSWER."
        /\ last[1].child[1].returncode # 0 =>
              /\ Value(last[1]).result = "Failed to execute"
              /\ Value(last[1]).error = last[1].child[1].stderr

C5_Witness ==
    /\ LastIsCode /\ last[1].spawned
    /\ last[1].child[1].returncode = 0
    /\ last[1].child[1].stdout = "ok\n"
    /\ Value(last[1]).result = "Code executed successfully"

\* C6, as claimed: when the child of an execute_code call exits nonzero,
\* the dict says failure, its stderr is not empty and it has a stdout field
\* with what the child printed.
C6_FailureHasStderrAndStdout ==
    (LastIsCode /\ last[1].spawned /\ last[1].child[1].returncode # 0) =>
        /\ Value(last[1]).result = "Failed to execute"
        /\ Value(last[1]).error # ""
        /\ "output" \in DOMAIN Value(last[1])
        /\ Value(last[1]).output = last[1].child[1].stdout

\* C6, amended: when the child of an execute_code call exits nonzero, the
\* dict says failure, its error is the captured stderr (empty if the child
\* wrote none) and it has no other field than result, error and file_path:
\* what the child printed is not returned.
C6_FailureReturnsStderrOnly ==
    (LastIsCode /\ last[1].spawned /\ last[1].child[1].returncode # 0) =>
        /\ Returned(last[1])
        /\ DOMAIN Value(last[1]) = {"result", "error", "file_path"}
        /\ Value(last[1]).result = "Failed to execute"
        /\ Value(last[1]).error = last[1].child[1].stderr

C6_Witness ==
    /\ LastIsCode /\ last[1].spawned
    /\ last[1].child[1].returncode # 0
    /\ last[1].child[1].stdout # ""
    /\ last[1].child[1].stderr = ""
    /\ Value(last[1]).error = ""

\* The calls of log made under name n, by position.
CallsUnder(n) == {i \in 1..Len(log) : log[i].args[2] = n}
LastUnder(n) == CHOOSE i \in CallsUnder(n) : \A j \in CallsUnder(n) : j <= i

\* C7: after any sequence of execute_code calls, for every identifier used
\* as a name the file <storage_root>/<name> exists and holds exactly the
\* body of the latest call made under that name: a later call under the
\* same name replaces the content, calls under other names leave it alone.
C7_ArtifactHoldsLatestBody ==
    \A n \in ValidNames :
        CallsUnder(n) # {} =>
            /\ ArtifactLocation(n) \in DOMAIN files
            /\ files[ArtifactLocation(n)] = log[LastUnder(n)].args[1]

C7_Witness ==
    /\ Len(log) = 3
    /\ log[1].args[2] = NameA /\ log[2].args[2] = NameA /\ log[3].args[2] = NameB
    /\ log[1].args[1] = BodyMkdir /\ log[2].args[1] = BodyOk
    /\ log[3].args[1] = BodyExit
    /\ files[ArtifactLocation(NameA)] = BodyOk

\* C9: two execute_code calls with the same name and the same body, the
\* body without effects outside itself, return dicts with the same status,
\* the same output and the same error, and their children the same stdout
\* and stderr, whatever calls, failed ones too, were made before or between.
C9_SameSubmissionSameResult ==
    \A i, j \in 1..Len(log) :
        (i < j /\ log[i].args = log[j].args /\ log[i].args[1] \in PureBodies) =>
            /\ log[i].outcome = log[j].outcome
            /\ log[i].spawned = log[j].spawned
            /\ log[i].spawned =>
                  /\ log[i].child[1].stdout = log[j].child[1].stdout
                  /\ log[i].child[1].stderr = log[j].child[1].stderr
                  /\ log[i].child[1].returncode = log[j].child[1].returncode

C9_Witness ==
    /\ Len(log) = 3
    /\ log[1].args = <<BodyOk, NameA>> /\ log[3].args = log[1].args
    /\ log[2].args = <<BodyExit, NameA>>
    /\ Value(log[2]).result = "Failed to execute"
    /\ Value(log[1]).result = "Code executed successfully"
    /\ Value(log[3]) = Value(log[1])

\* C10, as claimed: an execute_code call made while the storage directory
\* is missing creates it, writes the file and runs it, and does not end in
\* "Error occurred".
C10_SubmitCreatesRoot ==
    (LastIsCode /\ ValidName(last[1].args[2]) /\ ~last[1].rootThere
       /\ environ.python) =>
        /\ last[1].wrote
        /\ last[1].spawned
        /\ Value(last[1]).result # "Error occurred"

\* C10, amended: the storage directory is created, when missing, by the
\* module body at import and by nothing else.  An execute_code call made
\* while it is missing writes no file, starts no child, leaves the
\* directory missing and returns "Error occurred" with the message of the
\* FileNotFoundError that open raised.
C10_RootCreatedAtImportOnly ==
    /\ (loaded /\ ~removed) => Resolve(storage_path) \in dirs
    /\ (LastIsCode /\ ValidName(last[1].args[2]) /\ ~last[1].rootThere) =>
          /\ ~last[1].wrote
          /\ ~last[1].spawned
          /\ Resolve(storage_path) \notin dirs
          /\ ArtifactLocation(last[1].args[2]) \notin DOMAIN files
          /\ Returned(last[1])
          /\ Value(last[1]).result = "Error occurred"
          /\ Value(last[1]).error = ENOENT(last[1].path)

C10_Witness ==
    /\ LastIsCode /\ ValidName(last[1].args[2]) /\ ~last[1].rootThere
    /\ environ.python
    /\ Value(last[1]).result = "Error occurred"

Begun(t) == pc[t] # "idle"

====
